---- MODULE Spec2Model ----
(***************************************************************************)
(* A model of UDNNewsScraper (src/UDNNewsScraper.py): one run of           *)
(* run_scraper -> UDNNewsScraper.scrape -> _fetch_article_content, with    *)
(* the browser page, the progress callback and the CSV writer as the       *)
(* environment.                                                            *)
(*                                                                         *)
(* Strings the code inspects (URLs) are sequences of tokens: "/" and       *)
(* "http" are the prefixes str.startswith looks for, "news_id=" is the     *)
(* query parameter the regular expression looks for, and a run of digits   *)
(* is one token of DigitTokens.  f-strings are tuples of their parts.      *)
(* Python's None is the one-token sequence None.                           *)
(***************************************************************************)
EXTENDS Integers, Sequences, FiniteSets, TLC

(***************************************************************************)
(* Program constants                                                       *)
(***************************************************************************)

\* self.base_url
base_url == <<"http", "udndata.com">>

\* the listing size the page arithmetic divides by
PerPage == 20

\* content container selectors, in the order the code tries them
selectors == <<"article", "div.article", "div.content", "div.story">>

None == <<"None">>

DigitTokens == {"101", "202"}

Min(a, b) == IF a <= b THEN a ELSE b

(***************************************************************************)
(* Bounds of the model                                                     *)
(***************************************************************************)

\* small runs (Spec): largest max_articles below PerPage, most anchors a
\* listing page returns, most links a run collects
MaxArticlesRun == 2
MaxAnchorsRun == 2
MaxLinksRun == 3

\* long runs (SpecLarge): largest max_articles, most anchors a listing page
\* returns (more than PerPage: the site need not keep to its page size), most
\* links a run collects, largest reported total
MaxArticlesLarge == 40
MaxAnchorsLarge == 22
MaxLinksLarge == 44
MaxTotalLarge == 200

\* page arithmetic (SpecPages): largest max_articles, reported total and
\* max_pages
MaxArticlesPages == 50
MaxTotalPages == 200
MaxPagesCap == 4

(***************************************************************************)
(* Pure helpers of _fetch_article_content                                  *)
(***************************************************************************)

\* str.startswith(prefix) for a one-token prefix
startswith(s, tok) == Len(s) > 0 /\ s[1] = tok

\* lines 55-58: make the link absolute
NormalizeLink(link) ==
    IF startswith(link, "/") THEN base_url \o link
    ELSE IF ~startswith(link, "http") THEN base_url \o <<"/">> \o link
    ELSE link

\* lines 79-87: re.search(r'news_id=(\d+)') else re.search(r'/(\d+)$') else
\* "Unknown ID"
NewsIdOf(link) ==
    LET hits == {i \in 1..(Len(link) - 1) :
                    link[i] = "news_id=" /\ link[i + 1] \in DigitTokens}
    IN  IF hits # {}
        THEN <<link[(CHOOSE i \in hits : \A j \in hits : i <= j) + 1]>>
        ELSE IF Len(link) >= 2 /\ link[Len(link) - 1] = "/"
                /\ link[Len(link)] \in DigitTokens
        THEN <<link[Len(link)]>>
        ELSE <<"Unknown ID">>

\* what the site serves at a URL
PageTitle(url) == <<"h1 of">> \o url
PageDate(url) == <<"date of">> \o url
PageParagraphs(sel, url) == <<"p of", sel>> \o url
PageBody(url) == <<"body of">> \o url

\* lines 72-76
NavFailedRecord(index, err) ==
    [Title |-> <<"Article", index, "(navigation failed)">>,
     Date |-> <<"Unknown date">>,
     Content |-> <<"Content extraction failed:", err>>]

\* lines 148-152
ProcessingFailedRecord(index, err) ==
    [Title |-> <<"Article", index, "(processing failed)">>,
     Date |-> <<"Unknown date">>,
     Content |-> <<"Content extraction failed:", err>>]

TitleFailed(index) == <<"Article", index, "(title extraction failed)">>

(***************************************************************************)
(* The behaviour of the page (and of the callback) during one article:     *)
(*   sink1, sink2  "ok" | "raise"     the two article_update calls         *)
(*   nav           "ok" | "raise"     page.goto                            *)
(*   title         "present" | "absent" | "raise"                          *)
(*   date          "match" | "nomatch" | "absent" | "raise"                *)
(*   sel           per selector: "none" | "empty" | "text" | "raise"       *)
(*   body          "text" | "empty" | "none" | "raise"                     *)
(***************************************************************************)
SelOutcomes == {"none", "empty", "text", "raise"}

ArticleEnvs ==
    [sink1 : {"ok", "raise"}, nav : {"ok", "raise"},
     title : {"present", "absent", "raise"}, sink2 : {"ok", "raise"},
     date : {"match", "nomatch", "absent", "raise"},
     sel : [1..Len(selectors) -> SelOutcomes],
     body : {"text", "empty", "none", "raise"}]

\* lines 121-132: the selector loop from selector i on; the content it leaves
\* and the queries it makes.  "raise" leaves the try block.
RECURSIVE SelectorLoop(_, _, _)
SelectorLoop(i, url, e) ==
    IF i > Len(selectors) THEN [content |-> <<>>, raised |-> FALSE, ops |-> <<>>]
    ELSE LET q == << <<"query", selectors[i]>> >>
         IN  CASE e.sel[i] = "raise" ->
                    [content |-> <<>>, raised |-> TRUE, ops |-> q]
               [] e.sel[i] = "text" ->
                    [content |-> PageParagraphs(selectors[i], url),
                     raised |-> FALSE, ops |-> q]
               [] OTHER ->
                    LET rest == SelectorLoop(i + 1, url, e)
                    IN  [rest EXCEPT !.ops = q \o rest.ops]

\* lines 111-138
ExtractContent(url, e) ==
    LET chain == SelectorLoop(1, url, e)
    IN  IF chain.raised
        THEN [content |-> <<"Content extraction failed">>, ops |-> chain.ops]
        ELSE IF chain.content # <<>>
        THEN [content |-> chain.content, ops |-> chain.ops]
        ELSE [content |->
                 CASE e.body = "text" -> PageBody(url)
                   [] e.body = "empty" -> <<>>
                   [] OTHER -> <<"Content extraction failed">>,
              ops |-> chain.ops \o << <<"query", "body">> >>]

\* lines 91-100; cb: a progress callback is attached
ExtractTitle(url, index, cb, e) ==
    LET found == IF e.title = "present" THEN PageTitle(url) ELSE TitleFailed(index)
    IN  IF e.title = "raise" THEN TitleFailed(index)
        ELSE IF cb /\ e.sink2 = "raise" THEN TitleFailed(index)
        ELSE found

\* lines 102-109
ExtractDate(url, e) ==
    IF e.date = "match" THEN PageDate(url) ELSE <<"Unknown date">>

\* lines 78-145: the steps after a successful navigation, on the page at url
ExtractFields(link, url, index, total, cb, e) ==
    LET title == ExtractTitle(url, index, cb, e)
        c == ExtractContent(url, e)
    IN  [rec |-> [NewsID |-> NewsIdOf(link),
                  Title |-> title,
                  Date |-> ExtractDate(url, e),
                  Content |-> c.content],
         ops |-> << <<"query", "h1">>, <<"query", "span.story-source">> >>
                 \o c.ops,
         notes |-> IF cb /\ e.title # "raise" /\ e.sink2 = "ok"
                   THEN << <<"article_update", index, total, title>> >>
                   ELSE <<>>]

\* _fetch_article_content without the return of line 72: a failed navigation
\* falls through to the extraction steps, on the page still shown
FetchNavFallsThrough(link, index, total, cb, url0, e) ==
    IF link = None
    THEN [rec |-> ProcessingFailedRecord(index, "AttributeError"),
          ops |-> <<>>, notes |-> <<>>, url |-> url0]
    ELSE IF cb /\ e.sink1 = "raise"
    THEN [rec |-> ProcessingFailedRecord(index, "SinkError"),
          ops |-> <<>>, notes |-> <<>>, url |-> url0]
    ELSE LET abs == NormalizeLink(link)
             url == IF e.nav = "raise" THEN url0 ELSE abs
             f == ExtractFields(abs, url, index, total, cb, e)
         IN  [rec |-> f.rec, ops |-> << <<"goto">> >> \o f.ops,
              notes |-> f.notes, url |-> url]

\* lines 41-152: the record returned, the page operations made (ops), the
\* callback notifications delivered (notes) and the page's URL afterwards.
_fetch_article_content(link, index, total, cb, url0, e) ==
    IF link = None
    THEN \* None has no startswith: AttributeError, caught at line 146
         [rec |-> ProcessingFailedRecord(index, "AttributeError"),
          ops |-> <<>>, notes |-> <<>>, url |-> url0]
    ELSE IF cb /\ e.sink1 = "raise"
    THEN \* article_update raises at line 62, caught at line 146
         [rec |-> ProcessingFailedRecord(index, "SinkError"),
          ops |-> <<>>, notes |-> <<>>, url |-> url0]
    ELSE LET abs == NormalizeLink(link)
             n1 == IF cb THEN << <<"article_update", index, total>> >> ELSE <<>>
         IN  IF e.nav = "raise"
             THEN [rec |-> NavFailedRecord(index, "NavError"),
                   ops |-> << <<"goto">> >>, notes |-> n1, url |-> url0]
             ELSE LET f == ExtractFields(abs, abs, index, total, cb, e)
                  IN  [rec |-> f.rec, ops |-> << <<"goto">> >> \o f.ops,
                       notes |-> n1 \o f.notes, url |-> abs]

(***************************************************************************)
(* The run: run_scraper -> scrape                                          *)
(***************************************************************************)

VARIABLES
    max_articles,       \* scrape's argument
    max_pages,          \* {} for None, {n} for the integer n
    manual_mode,
    progress_callback,  \* TRUE: a callback object is attached
    output_file,        \* TRUE: an output file is named
    self_browser,       \* self.browser is set (it is never reset)
    self_playwright,    \* self.playwright is set (it is never reset)
    browser_state,      \* "none" | "open" | "closed"
    driver_state,       \* "none" | "running" | "stopped"
    close_calls,        \* browser.close() calls so far
    stop_calls,         \* playwright.stop() calls so far
    page_url,           \* the URL the page shows
    pc,                 \* where the run is
    news_data, news_links,
    total_results, total_pages,
    current_page,       \* the listing page the page loop is at
    title_elements,     \* the anchors of the current listing page
    anchor_idx,         \* the anchor the inner loop is at
    index,              \* the article the extraction loop is at
    exc,                \* the exception in flight, "none" if none
    retval,             \* the value scrape returns (NoValue: none)
    caught,             \* where the exception the handler caught was raised
    behaviour,          \* the page's behaviour at each article so far
    page_ops,           \* the page operations made for the last article
    login_link,         \* the landing page's login link: "unknown" | "absent" | "present"
    login_error,        \* the handler of line 214 has run
    continued,          \* input() has returned: the user pressed Enter
    last_note           \* the last call made to the callback:
                        \* "none" | "progress" | "complete"

vars ==
    <<max_articles, max_pages, manual_mode, progress_callback, output_file,
      self_browser, self_playwright, browser_state, driver_state, close_calls,
      stop_calls, page_url, pc, news_data, news_links, total_results,
      total_pages, current_page, title_elements, anchor_idx, index, exc,
      retval, caught, behaviour, page_ops, login_link, login_error,
      continued, last_note>>

inputs == <<max_articles, max_pages, manual_mode, progress_callback, output_file>>
session == <<self_browser, self_playwright, browser_state, driver_state,
             close_calls, stop_calls>>
collect == <<news_links, total_results, total_pages, current_page,
             title_elements, anchor_idx>>
outcome == <<exc, retval, caught>>
extraction == <<news_data, index, behaviour, page_ops>>
login_vars == <<login_link, login_error, continued>>
observed == <<login_link, login_error, continued, last_note>>

NaN == <<"NaN">>
NoValue == [columns |-> {"no value"}, rows |-> <<>>]

\* pd.DataFrame(rows): the columns are the keys of the rows, a row without a
\* key holds NaN there
DataFrame(rows) ==
    LET cols == UNION {DOMAIN rows[i] : i \in 1..Len(rows)}
    IN  [columns |-> cols,
         rows |-> [i \in 1..Len(rows) |->
                     [c \in cols |-> IF c \in DOMAIN rows[i] THEN rows[i][c]
                                     ELSE NaN]]]

\* line 361, 371: pd.DataFrame(columns=['Title', 'Date', 'Content'])
EmptyFrame == [columns |-> {"Title", "Date", "Content"}, rows |-> <<>>]

landing == base_url \o <<"/", "ndapp", "/", "Index", "?", "cp=udn">>

\* TotalPages without the rule of line 262
TotalPagesNoSmallRule(total, maxArticles, maxPages) ==
    LET calculated_pages == (Min(total, maxArticles) + PerPage - 1) \div PerPage
    IN  IF maxPages # {} /\ (CHOOSE n \in maxPages : TRUE) > 0
        THEN Min(calculated_pages, CHOOSE n \in maxPages : TRUE)
        ELSE calculated_pages

\* TotalPages rounding the quotient of line 266 down
TotalPagesFloor(total, maxArticles, maxPages) ==
    LET calculated_pages ==
            IF maxArticles < PerPage THEN 1
            ELSE Min(total, maxArticles) \div PerPage
    IN  IF maxPages # {} /\ (CHOOSE n \in maxPages : TRUE) > 0
        THEN Min(calculated_pages, CHOOSE n \in maxPages : TRUE)
        ELSE calculated_pages

\* TotalPages never below one page
TotalPagesAtLeastOne(total, maxArticles, maxPages) ==
    LET ceil == (Min(total, maxArticles) + PerPage - 1) \div PerPage
        calculated_pages ==
            IF maxArticles < PerPage \/ ceil = 0 THEN 1 ELSE ceil
    IN  IF maxPages # {} /\ (CHOOSE n \in maxPages : TRUE) > 0
        THEN Min(calculated_pages, CHOOSE n \in maxPages : TRUE)
        ELSE calculated_pages

\* TotalPages without the limit of lines 269-270
TotalPagesNoCap(total, maxArticles, maxPages) ==
    IF maxArticles < PerPage THEN 1
    ELSE (Min(total, maxArticles) + PerPage - 1) \div PerPage

\* lines 262-272
TotalPages(total, maxArticles, maxPages) ==
    LET calculated_pages ==
            IF maxArticles < PerPage THEN 1
            ELSE (Min(total, maxArticles) + PerPage - 1) \div PerPage
    IN  IF maxPages # {} /\ (CHOOSE n \in maxPages : TRUE) > 0
        THEN Min(calculated_pages, CHOOSE n \in maxPages : TRUE)
        ELSE calculated_pages

\* the exceptions a step of the try block can raise: the page's, and the
\* callback's when one is attached
StepErrors(withSink) ==
    {"PageError"} \cup (IF withSink /\ progress_callback THEN {"SinkError"} ELSE {})

\* the last call made to the callback after a step that begins with the
\* notification n (every such call sits under `if self.progress_callback`)
Note(n) == IF progress_callback THEN n ELSE last_note

\* an exception raised inside scrape's try block (line 180) at `at`
Raise(err, at) ==
    /\ pc' = "except"
    /\ exc' = err
    /\ caught' = at
    /\ UNCHANGED retval

InitRun(MaxArticles, MaxPages, Flags) ==
    /\ max_articles \in MaxArticles
    /\ max_pages \in MaxPages
    /\ manual_mode \in Flags
    /\ progress_callback \in Flags
    /\ output_file \in Flags
    /\ self_browser = FALSE
    /\ self_playwright = FALSE
    /\ browser_state = "none"
    /\ driver_state = "none"
    /\ close_calls = 0
    /\ stop_calls = 0
    /\ page_url = <<"about:blank">>
    /\ pc = "setup"
    /\ news_data = <<>>
    /\ news_links = <<>>
    /\ total_results = 0
    /\ total_pages = 0
    /\ current_page = 0
    /\ title_elements = <<>>
    /\ anchor_idx = 0
    /\ index = 0
    /\ exc = "none"
    /\ retval = NoValue
    /\ caught = "none"
    /\ behaviour = <<>>
    /\ page_ops = <<>>
    /\ login_link = "unknown"
    /\ login_error = FALSE
    /\ continued = FALSE
    /\ last_note = "none"

\* lines 28-39, called at line 175 outside the try block: a failure leaves
\* scrape at once
_setup_driver ==
    /\ pc = "setup"
    /\ \E o \in {"ok", "start fails", "launch fails", "new_page fails"} :
        /\ self_playwright' = (o # "start fails")
        /\ driver_state' = IF o # "start fails" THEN "running" ELSE "none"
        /\ self_browser' = (o \in {"ok", "new_page fails"})
        /\ browser_state' = IF o \in {"ok", "new_page fails"} THEN "open" ELSE "none"
        /\ IF o = "ok"
           THEN pc' = "open" /\ UNCHANGED exc
           ELSE pc' = "rs_finally" /\ exc' = "SetupError"
    /\ UNCHANGED <<inputs, close_calls, stop_calls, page_url, collect,
                   extraction, retval, caught, observed>>

\* lines 181-189
OpenSite ==
    /\ pc = "open"
    /\ \/ /\ pc' = "login"
          /\ page_url' = landing
          /\ login_link' \in {"absent", "present"}
          /\ UNCHANGED outcome
       \/ /\ \E err \in StepErrors(TRUE) : Raise(err, "open")
          /\ UNCHANGED <<page_url, login_link>>
    /\ last_note' = Note("progress")
    /\ UNCHANGED <<inputs, session, collect, extraction, login_error, continued>>

\* Login going on to the click whether or not the link is found
LoginClickAnyway ==
    /\ pc = "login"
    /\ \/ pc' = "click" /\ UNCHANGED login_error
       \/ pc' = "search" /\ login_error' = TRUE
    /\ last_note' = Note("progress")
    /\ UNCHANGED <<inputs, session, page_url, collect, extraction, outcome,
                   login_link, continued>>

\* lines 192-197, 212-216: the notification and the query for the login
\* link; without the link the login is skipped.  Every failure in the block
\* of line 192 is caught at line 214 and the run goes on with the search.
Login ==
    /\ pc = "login"
    /\ \/ /\ pc' = IF login_link = "present" THEN "click" ELSE "search"
          /\ UNCHANGED login_error
       \/ /\ pc' = "search"
          /\ login_error' = TRUE
    /\ last_note' = Note("progress")
    /\ UNCHANGED <<inputs, session, page_url, collect, extraction, outcome,
                   login_link, continued>>

\* ClickLogin going on to the search without waiting for input()
ClickLoginNoWait ==
    /\ pc = "click"
    /\ pc' = "search"
    /\ \/ UNCHANGED login_error
       \/ login_error' = TRUE
    /\ UNCHANGED <<inputs, session, page_url, collect, extraction, outcome,
                   login_link, continued, last_note>>

\* lines 198-204, 211: the click, and with manual_mode the notification
\* before the wait
ClickLogin ==
    /\ pc = "click"
    /\ \/ /\ pc' = IF manual_mode THEN "await_input" ELSE "search"
          /\ UNCHANGED login_error
       \/ /\ pc' = "search"
          /\ login_error' = TRUE
    /\ UNCHANGED <<inputs, session, page_url, collect, extraction, outcome,
                   login_link, continued, last_note>>

\* lines 208-211: input() returns when the user presses Enter; it raises
\* when the standard input is closed
ContinueSignal ==
    /\ pc = "await_input"
    /\ pc' = "search"
    /\ \/ continued' = TRUE /\ UNCHANGED login_error
       \/ login_error' = TRUE /\ UNCHANGED continued
    /\ UNCHANGED <<inputs, session, page_url, collect, extraction, outcome,
                   login_link, last_note>>

\* lines 218-246
SubmitSearch ==
    /\ pc = "search"
    /\ \/ /\ pc' = "analyze"
          /\ page_url' = landing \o <<"&", "results">>
          /\ UNCHANGED outcome
       \/ /\ \E err \in StepErrors(TRUE) : Raise(err, "search")
          /\ UNCHANGED page_url
    /\ last_note' = Note("progress")
    /\ UNCHANGED <<inputs, session, collect, extraction, login_vars>>

\* lines 248-283; Totals: the counts the result page may report, -1 standing
\* for a page in which the count is not found
AnalyzeResults(Totals) ==
    /\ pc = "analyze"
    /\ \/ /\ \E match \in Totals \cup {-1} :
               total_results' = IF match = -1 THEN 0 ELSE match
          /\ total_pages' = TotalPages(total_results', max_articles, max_pages)
          /\ news_links' = <<>>
          /\ current_page' = 1
          /\ pc' = "pages"
          /\ UNCHANGED <<title_elements, anchor_idx, outcome>>
       \/ /\ \E err \in StepErrors(TRUE) : Raise(err, "analyze")
          /\ UNCHANGED collect
    /\ last_note' = Note("progress")
    /\ UNCHANGED <<inputs, session, page_url, extraction, login_vars>>

PageDigits == <<"1", "2", "3", "4", "5", "6">>

\* lines 293-298: the URL of listing page n, from the current URL
NextPageUrl(url, n) ==
    IF \E i \in 1..Len(url) : url[i] = "page="
    THEN [i \in 1..Len(url) |->
            IF i > 1 /\ url[i - 1] = "page=" THEN PageDigits[n] ELSE url[i]]
    ELSE url \o <<(IF \E i \in 1..Len(url) : url[i] = "?" THEN "&" ELSE "?"),
                  "page=", PageDigits[n]>>

\* lines 311-312
AbsoluteHref(link) ==
    IF link # None /\ startswith(link, "/") THEN base_url \o link ELSE link

\* lines 318, 323
EnoughLinks(links) == Len(links) >= max_articles

\* line 286: range(1, total_pages + 1) is exhausted
EndPages ==
    /\ pc = "pages"
    /\ current_page > total_pages
    /\ pc' = "truncate"
    /\ UNCHANGED <<inputs, session, page_url, collect, extraction, outcome,
                   observed>>

\* lines 286-305: the head of the page loop; Lists: the anchor lists a listing
\* page may hold, MaxLinks: the most anchors the site serves in one run
NextPage(Lists, MaxLinks) ==
    /\ pc = "pages"
    /\ current_page <= total_pages
    /\ \/ /\ \E list \in Lists :
                /\ Len(news_links) + Len(list) <= MaxLinks
                /\ title_elements' = list
          /\ anchor_idx' = 1
          /\ page_url' = IF current_page > 1
                         THEN NextPageUrl(page_url, current_page) ELSE page_url
          /\ pc' = "anchors"
          /\ UNCHANGED <<news_links, total_results, total_pages, current_page,
                         outcome>>
       \/ /\ \E err \in StepErrors(TRUE) : Raise(err, "pages")
          /\ UNCHANGED <<page_url, collect>>
    /\ last_note' = Note("progress")
    /\ UNCHANGED <<inputs, session, extraction, login_vars>>

\* lines 306-320: one anchor read and appended, leaving the inner loop when
\* enough links are collected
ReadAnchorNoBreak ==
    /\ pc = "anchors"
    /\ anchor_idx <= Len(title_elements)
    /\ \/ /\ news_links' = Append(news_links,
                 [title |-> title_elements[anchor_idx].title,
                  link |-> AbsoluteHref(title_elements[anchor_idx].href)])
          /\ anchor_idx' = anchor_idx + 1
          /\ UNCHANGED <<pc, outcome>>
       \/ /\ Raise("PageError", "anchors")
          /\ UNCHANGED <<news_links, anchor_idx>>
    /\ UNCHANGED <<inputs, session, page_url, total_results, total_pages,
                   current_page, title_elements, extraction, observed>>

ReadAnchor ==
    /\ pc = "anchors"
    /\ anchor_idx <= Len(title_elements)
    /\ \/ /\ news_links' = Append(news_links,
                 [title |-> title_elements[anchor_idx].title,
                  link |-> AbsoluteHref(title_elements[anchor_idx].href)])
          /\ IF EnoughLinks(news_links')
             THEN pc' = "page_end" /\ UNCHANGED anchor_idx
             ELSE anchor_idx' = anchor_idx + 1 /\ UNCHANGED pc
          /\ UNCHANGED outcome
       \/ /\ Raise("PageError", "anchors")
          /\ UNCHANGED <<news_links, anchor_idx>>
    /\ UNCHANGED <<inputs, session, page_url, total_results, total_pages,
                   current_page, title_elements, extraction, observed>>

\* lines 306, 322-324: the inner loop is over (its anchors exhausted, or
\* left by break): leave the page loop too when enough links are collected
EndPage ==
    /\ \/ pc = "page_end"
       \/ pc = "anchors" /\ anchor_idx > Len(title_elements)
    /\ IF EnoughLinks(news_links)
       THEN pc' = "truncate" /\ UNCHANGED current_page
       ELSE pc' = "pages" /\ current_page' = current_page + 1
    /\ UNCHANGED <<inputs, session, page_url, news_links, total_results,
                   total_pages, title_elements, anchor_idx, extraction, outcome,
                   observed>>

\* line 327
Clamp(links) == SubSeq(links, 1, Min(Len(links), max_articles))

\* lines 326-333
Truncate ==
    /\ pc = "truncate"
    /\ news_links' = Clamp(news_links)
    /\ \/ /\ pc' = "extract"
          /\ index' = 1
          /\ UNCHANGED outcome
       \/ /\ \E err \in StepErrors(TRUE) \ {"PageError"} : Raise(err, "truncate")
          /\ UNCHANGED index
    /\ last_note' = Note("progress")
    /\ UNCHANGED <<inputs, session, page_url, news_data, total_results,
                   total_pages, current_page, title_elements, anchor_idx,
                   behaviour, page_ops, login_vars>>

\* Truncate without the slice of line 327
TruncateNoClamp ==
    /\ pc = "truncate"
    /\ \/ /\ pc' = "extract"
          /\ index' = 1
          /\ UNCHANGED outcome
       \/ /\ \E err \in StepErrors(TRUE) \ {"PageError"} : Raise(err, "truncate")
          /\ UNCHANGED index
    /\ last_note' = Note("progress")
    /\ UNCHANGED <<inputs, session, page_url, news_data, collect, behaviour,
                   page_ops, login_vars>>

\* CollectLinks with neither the break of line 320 nor the slice of line 327
CollectLinksUncapped(Lists, MaxLinks) ==
    \/ EndPages
    \/ NextPage(Lists, MaxLinks)
    \/ ReadAnchorNoBreak
    \/ EndPage
    \/ TruncateNoClamp

\* lines 285-333: the page loop and the cap on the links
CollectLinks(Lists, MaxLinks) ==
    \/ EndPages
    \/ NextPage(Lists, MaxLinks)
    \/ ReadAnchor
    \/ EndPage
    \/ Truncate

\* FetchArticle appending nothing for an article whose navigation failed
FetchArticleSkipFailed(Envs) ==
    /\ pc = "extract"
    /\ index <= Len(news_links)
    /\ \E e \in Envs :
        /\ progress_callback \/ (e.sink1 = "ok" /\ e.sink2 = "ok")
        /\ LET article_data ==
                   _fetch_article_content(news_links[index].link, index,
                       Len(news_links), progress_callback, page_url, e)
           IN  /\ news_data' = IF article_data.ops = << <<"goto">> >>
                                THEN news_data
                                ELSE Append(news_data, article_data.rec)
               /\ page_url' = article_data.url
               /\ page_ops' = article_data.ops
        /\ behaviour' = Append(behaviour, e)
    /\ index' = index + 1
    /\ last_note' = IF news_links[index].link # None THEN Note("progress")
                    ELSE last_note
    /\ UNCHANGED <<inputs, session, pc, collect, outcome, login_vars>>

\* FetchArticle leaving the loop at an article whose navigation failed
FetchArticleStopAtFailed(Envs) ==
    /\ pc = "extract"
    /\ index <= Len(news_links)
    /\ \E e \in Envs :
        /\ progress_callback \/ (e.sink1 = "ok" /\ e.sink2 = "ok")
        /\ LET article_data ==
                   _fetch_article_content(news_links[index].link, index,
                       Len(news_links), progress_callback, page_url, e)
           IN  /\ news_data' = Append(news_data, article_data.rec)
               /\ page_url' = article_data.url
               /\ page_ops' = article_data.ops
               /\ index' = IF article_data.ops = << <<"goto">> >>
                            THEN Len(news_links) + 1 ELSE index + 1
        /\ behaviour' = Append(behaviour, e)
    /\ last_note' = IF news_links[index].link # None THEN Note("progress")
                    ELSE last_note
    /\ UNCHANGED <<inputs, session, pc, collect, outcome, login_vars>>

\* FetchArticle writing the title found on the article page back into the
\* link entry
FetchArticleUpdatesLink(Envs) ==
    /\ pc = "extract"
    /\ index <= Len(news_links)
    /\ \E e \in Envs :
        /\ progress_callback \/ (e.sink1 = "ok" /\ e.sink2 = "ok")
        /\ LET article_data ==
                   _fetch_article_content(news_links[index].link, index,
                       Len(news_links), progress_callback, page_url, e)
           IN  /\ news_data' = Append(news_data, article_data.rec)
               /\ page_url' = article_data.url
               /\ page_ops' = article_data.ops
               /\ news_links' = [news_links EXCEPT
                                    ![index].title = article_data.rec.Title]
        /\ behaviour' = Append(behaviour, e)
    /\ index' = index + 1
    /\ last_note' = IF news_links[index].link # None THEN Note("progress")
                    ELSE last_note
    /\ UNCHANGED <<inputs, session, pc, total_results, total_pages,
                   current_page, title_elements, anchor_idx, outcome,
                   login_vars>>

\* lines 336-346: one turn of the extraction loop.  _fetch_article_content
\* raises nothing, so the handler of line 340 has nothing to catch.
FetchArticle(Envs) ==
    /\ pc = "extract"
    /\ index <= Len(news_links)
    /\ \E e \in Envs :
        /\ progress_callback \/ (e.sink1 = "ok" /\ e.sink2 = "ok")
        /\ LET article_data ==
                   _fetch_article_content(news_links[index].link, index,
                       Len(news_links), progress_callback, page_url, e)
           IN  /\ news_data' = Append(news_data, article_data.rec)
               /\ page_url' = article_data.url
               /\ page_ops' = article_data.ops
        /\ behaviour' = Append(behaviour, e)
    /\ index' = index + 1
    /\ last_note' = IF news_links[index].link # None THEN Note("progress")
                    ELSE last_note
    /\ UNCHANGED <<inputs, session, pc, collect, outcome, login_vars>>

\* lines 348-361
Assemble ==
    /\ pc = "extract"
    /\ index > Len(news_links)
    /\ \/ /\ pc' = "finally"
          /\ retval' = IF news_data # <<>> THEN DataFrame(news_data) ELSE EmptyFrame
          /\ UNCHANGED <<exc, caught>>
       \/ \E err \in StepErrors(TRUE) \ {"PageError"} : Raise(err, "assemble")
       \/ /\ news_data # <<>> /\ output_file
          /\ Raise("CsvError", "assemble")
    /\ last_note' = Note("progress")
    /\ UNCHANGED <<inputs, session, page_url, collect, extraction, login_vars>>

\* lines 363-371: the handler returns what was collected; df.to_csv may raise
\* again, and that exception leaves the handler
Handler ==
    /\ pc = "except"
    /\ pc' = "finally"
    /\ \/ /\ retval' = IF news_data # <<>> THEN DataFrame(news_data) ELSE EmptyFrame
          /\ exc' = "none"
       \/ /\ news_data # <<>> /\ output_file
          /\ exc' = "CsvError"
          /\ retval' = NoValue
    /\ UNCHANGED <<inputs, session, page_url, collect, extraction, caught,
                   observed>>

\* lines 386-389, and 378-382
ReleaseSession ==
    /\ browser_state' = IF self_browser THEN "closed" ELSE browser_state
    /\ close_calls' = IF self_browser THEN close_calls + 1 ELSE close_calls
    /\ driver_state' = IF self_playwright THEN "stopped" ELSE driver_state
    /\ stop_calls' = IF self_playwright THEN stop_calls + 1 ELSE stop_calls
    /\ UNCHANGED <<self_browser, self_playwright>>

\* the finally block with the release before the final notification
FinallyReleaseFirst ==
    \/ /\ pc = "finally"
       /\ pc' = "release"
       /\ ReleaseSession
       /\ UNCHANGED <<inputs, page_url, collect, extraction, outcome, observed>>
    \/ /\ pc = "release"
       /\ pc' = "rs_finally"
       /\ last_note' = Note("complete")
       /\ \/ UNCHANGED <<exc, retval>>
          \/ /\ progress_callback
             /\ exc' = "SinkError"
             /\ retval' = NoValue
       /\ UNCHANGED <<inputs, session, page_url, collect, extraction, caught,
                      login_vars>>

\* lines 375-376: the final notification; an exception raised by it replaces
\* the pending return value and skips the release
FinalNotification ==
    /\ pc = "finally"
    /\ \/ /\ pc' = "release"
          /\ UNCHANGED <<exc, retval>>
       \/ /\ progress_callback
          /\ pc' = "rs_finally"
          /\ exc' = "SinkError"
          /\ retval' = NoValue
    /\ last_note' = Note("complete")
    /\ UNCHANGED <<inputs, session, page_url, collect, extraction, caught,
                   login_vars>>

\* lines 378-382
FinalRelease ==
    /\ pc = "release"
    /\ pc' = "rs_finally"
    /\ ReleaseSession
    /\ UNCHANGED <<inputs, page_url, collect, extraction, outcome, observed>>

\* lines 373-382
Finally ==
    \/ FinalNotification
    \/ FinalRelease

\* run_scraper without its finally block
RunScraperNoClose ==
    /\ pc = "rs_finally"
    /\ pc' = "done"
    /\ UNCHANGED <<inputs, session, page_url, collect, extraction, outcome,
                   observed>>

\* lines 423-424: run_scraper's finally; what scrape returned or raised goes
\* to the caller
RunScraperFinally ==
    /\ pc = "rs_finally"
    /\ pc' = "done"
    /\ ReleaseSession
    /\ UNCHANGED <<inputs, page_url, collect, extraction, outcome, observed>>

(***************************************************************************)
(* Spec: whole runs with few links and every kind of page behaviour        *)
(***************************************************************************)

MaxArticlesChoices == (1..MaxArticlesRun) \cup {PerPage + 1}

MaxPagesChoices == {{}, {1}}

TotalsRun == {0, PerPage + 1}

HrefSlash == <<"/", "ndapp", "/", "Story", "?", "news_id=", "101">>
HrefBare == <<"story", "/", "202">>

\* an anchor with a site-relative href, and one without href
AnchorsRun == {[title |-> <<"T1">>, href |-> HrefSlash],
               [title |-> <<"T2">>, href |-> None]}

AnchorListsRun == UNION {[1..n -> AnchorsRun] : n \in 0..MaxAnchorsRun}

SelFirst == [i \in 1..Len(selectors) |-> IF i = 1 THEN "text" ELSE "none"]
SelNone == [i \in 1..Len(selectors) |-> "none"]

\* every step succeeds
EnvOk == [sink1 |-> "ok", nav |-> "ok", title |-> "present", sink2 |-> "ok",
          date |-> "match", sel |-> SelFirst, body |-> "text"]

EnvsRun == {EnvOk,
            [EnvOk EXCEPT !.nav = "raise"],
            [EnvOk EXCEPT !.sink1 = "raise"],
            [EnvOk EXCEPT !.title = "absent", !.date = "absent",
                          !.sel = SelNone, !.body = "none"]}

Init == InitRun(MaxArticlesChoices, MaxPagesChoices, BOOLEAN)

Next ==
    \/ _setup_driver
    \/ OpenSite
    \/ Login
    \/ ClickLogin
    \/ ContinueSignal
    \/ SubmitSearch
    \/ AnalyzeResults(TotalsRun)
    \/ CollectLinks(AnchorListsRun, MaxLinksRun)
    \/ FetchArticle(EnvsRun)
    \/ Assemble
    \/ Handler
    \/ Finally
    \/ RunScraperFinally

Spec == Init /\ [][Next]_vars

(***************************************************************************)
(* SpecLarge: whole runs with the listing sizes of the site, every article *)
(* page behaving well                                                      *)
(***************************************************************************)

MaxArticlesChoicesLarge == {15, PerPage, PerPage + 1, MaxArticlesLarge}

TotalsLarge == {0, 45, MaxTotalLarge}

AnchorListsLarge ==
    {[i \in 1..n |-> [title |-> <<"T1">>, href |-> HrefSlash]] :
        n \in {0, 1, PerPage, MaxAnchorsLarge}}

MaxPagesChoicesLarge == {{}, {1}, {2}}

InitLarge == InitRun(MaxArticlesChoicesLarge, MaxPagesChoicesLarge, {TRUE})

NextLarge ==
    \/ _setup_driver
    \/ OpenSite
    \/ Login
    \/ ClickLogin
    \/ ContinueSignal
    \/ SubmitSearch
    \/ AnalyzeResults(TotalsLarge)
    \/ CollectLinks(AnchorListsLarge, MaxLinksLarge)
    \/ FetchArticle({EnvOk})
    \/ Assemble
    \/ Handler
    \/ Finally
    \/ RunScraperFinally

SpecLarge == InitLarge /\ [][NextLarge]_vars

(***************************************************************************)
(* States in the middle of a run, from which the specifications of one     *)
(* step start                                                              *)
(***************************************************************************)

\* after line 175: _setup_driver has returned
SessionOpen ==
    /\ self_browser = TRUE
    /\ self_playwright = TRUE
    /\ browser_state = "open"
    /\ driver_state = "running"
    /\ close_calls = 0
    /\ stop_calls = 0

\* after line 246: the search is submitted
InitAnalyze(MaxArticles, MaxPages) ==
    /\ max_articles \in MaxArticles
    /\ max_pages \in MaxPages
    /\ manual_mode = FALSE
    /\ progress_callback = TRUE
    /\ output_file = FALSE
    /\ SessionOpen
    /\ page_url = landing \o <<"&", "results">>
    /\ pc = "analyze"
    /\ news_data = <<>>
    /\ news_links = <<>>
    /\ total_results = 0
    /\ total_pages = 0
    /\ current_page = 0
    /\ title_elements = <<>>
    /\ anchor_idx = 0
    /\ index = 0
    /\ exc = "none"
    /\ retval = NoValue
    /\ caught = "none"
    /\ behaviour = <<>>
    /\ page_ops = <<>>
    /\ login_link = "absent"
    /\ login_error = FALSE
    /\ continued = FALSE
    /\ last_note = "progress"

\* after line 333: one link is collected and the extraction loop begins
InitExtract(Links) ==
    /\ max_articles = 1
    /\ max_pages = {}
    /\ manual_mode = FALSE
    /\ progress_callback \in BOOLEAN
    /\ output_file = FALSE
    /\ SessionOpen
    /\ page_url = landing \o <<"&", "results">>
    /\ pc = "extract"
    /\ news_data = <<>>
    /\ \E l \in Links :
        /\ news_links = <<[title |-> <<"T1">>, link |-> l]>>
        /\ title_elements = <<[title |-> <<"T1">>, href |-> l]>>
    /\ total_results = 1
    /\ total_pages = 1
    /\ current_page = 1
    /\ anchor_idx = 1
    /\ index = 1
    /\ exc = "none"
    /\ retval = NoValue
    /\ caught = "none"
    /\ behaviour = <<>>
    /\ page_ops = <<>>
    /\ login_link = "absent"
    /\ login_error = FALSE
    /\ continued = FALSE
    /\ last_note = IF progress_callback THEN "progress" ELSE "none"

(***************************************************************************)
(* SpecPages: the page arithmetic over every total, max_articles and       *)
(* max_pages of its ranges                                                 *)
(***************************************************************************)

InitPages ==
    InitAnalyze(1..MaxArticlesPages,
                {{}} \cup {{n} : n \in (-1)..MaxPagesCap})

NextPages == AnalyzeResults(0..MaxTotalPages)

SpecPages == InitPages /\ [][NextPages]_vars

(***************************************************************************)
(* SpecExtract: _fetch_article_content over every link shape and every     *)
(* behaviour of the page                                                   *)
(***************************************************************************)

HrefAbsolute == <<"http", "udndata.com", "/", "story">>
EmptyString == <<>>

LinkShapes == {HrefSlash, HrefBare, HrefAbsolute, EmptyString, None}

InitFetch == InitExtract(LinkShapes)

NextFetch == FetchArticle(ArticleEnvs)

SpecExtract == InitFetch /\ [][NextFetch]_vars

(***************************************************************************)
(* SpecCollect: the analysis and the page loop over listing pages whose    *)
(* anchors carry every shape of href                                       *)
(***************************************************************************)

AnchorsAll == {[title |-> <<"T1">>, href |-> h] : h \in LinkShapes}

AnchorListsAll == UNION {[1..n -> AnchorsAll] : n \in 0..MaxAnchorsRun}

InitCollect == InitAnalyze(MaxArticlesChoices, {{}})

NextCollect ==
    \/ AnalyzeResults(TotalsRun)
    \/ CollectLinks(AnchorListsAll, MaxLinksRun)

SpecCollect == InitCollect /\ [][NextCollect]_vars

(***************************************************************************)
(* Properties                                                              *)
(***************************************************************************)

\* what scrape returns for the records collected (lines 353-361, 365-371)
FrameOf(rows) == IF rows # <<>> THEN DataFrame(rows) ELSE EmptyFrame

\* the steps of the try block up to the end of the extraction loop
StepsThroughExtraction == {"open", "search", "analyze", "pages", "anchors", "truncate"}

\* the Page Session was acquired: _setup_driver returned
Acquired == self_browser /\ self_playwright /\ exc # "SetupError"

\* C1: when a step of scrape between the opening of the landing page and the
\* end of the extraction loop raises, scrape does not raise: it returns
\* exactly the records appended before the failure (the empty frame when
\* there are none).
C1_PartialResultsReturned ==
    (pc = "rs_finally" /\ caught \in StepsThroughExtraction)
        => (exc = "none" /\ retval = FrameOf(news_data))

\* C2: when a run that acquired the Page Session returns to the caller of
\* run_scraper, by return or by exception, the browser is closed and the
\* driver is stopped.
C2_SessionReleased ==
    (pc = "done" /\ Acquired)
        => (browser_state = "closed" /\ driver_state = "stopped")

\* C2 witness: a run ended whose scrape left by the exception of its final
\* notification, so that only run_scraper's finally released the session
C2_Witness ==
    /\ pc = "done"
    /\ Acquired
    /\ exc = "SinkError"
    /\ close_calls = 1
    /\ browser_state = "closed"
    /\ driver_state = "stopped"

\* C3: the caller of a run receives an exception only when the Page Session
\* could not be acquired; every other run hands back a record sequence.
C3_OnlyAcquisitionFailureSurfaces ==
    (pc = "done" /\ exc # "SetupError") => (exc = "none" /\ retval # NoValue)

\* C4: every record _fetch_article_content returns has all four fields (news
\* id, title, date, content).
C4_AllFourFields ==
    \A i \in 1..Len(news_data) :
        DOMAIN news_data[i] = {"NewsID", "Title", "Date", "Content"}

\* C5: once the extraction loop is entered, the records are those of the
\* links already visited, one for each in order, and when the loop is left
\* there is one record for every link: record i is the one produced for
\* link i.
C5_OneRecordPerLink ==
    index >= 1 =>
        /\ Len(news_data) = index - 1
        /\ Len(behaviour) = index - 1
        /\ index - 1 <= Len(news_links)
        /\ pc # "extract" => Len(news_data) = Len(news_links)
        /\ \A i \in 1..Len(news_data) :
             news_data[i] =
                 _fetch_article_content(news_links[i].link, i, Len(news_links),
                     progress_callback, page_url, behaviour[i]).rec

\* C5 witness: a finished run over three links whose articles ended in three
\* different ways
C5_Witness ==
    /\ pc = "done"
    /\ Len(news_links) = 3
    /\ Len(news_data) = 3
    /\ news_data[1].Title = <<"Article", 1, "(processing failed)">>
    /\ news_data[2].Title = <<"Article", 2, "(navigation failed)">>
    /\ news_data[3].Title = PageTitle(NormalizeLink(news_links[3].link))

\* page.goto was called for article i and raised
NavigationFailed(i) ==
    /\ behaviour[i].nav = "raise"
    /\ news_links[i].link # None
    /\ ~(progress_callback /\ behaviour[i].sink1 = "raise")

\* C6: the record of an article whose navigation failed has the title
\* "Article {index} (navigation failed)", the date "Unknown date" and a
\* content carrying the navigation error, and goto is the only page
\* operation made for that article.
C6_NavigationFailedRecord ==
    \A i \in 1..Len(news_data) :
        (Len(behaviour) = Len(news_data) /\ NavigationFailed(i)) =>
            /\ news_data[i].Title = <<"Article", i, "(navigation failed)">>
            /\ news_data[i].Date = <<"Unknown date">>
            /\ news_data[i].Content = <<"Content extraction failed:", "NavError">>
            /\ i = Len(news_data) => page_ops = << <<"goto">> >>

\* C6 witness: an article fetched whose navigation failed, on a page that
\* would have served title, date and content
C6_Witness ==
    /\ Len(news_data) = 1
    /\ Len(behaviour) = 1
    /\ NavigationFailed(1)
    /\ behaviour[1].title = "present"
    /\ behaviour[1].date = "match"
    /\ behaviour[1].sel[1] = "text"

\* the record of link `link` at position i when every step succeeds
NormalRecord(link, i) ==
    LET url == NormalizeLink(link)
    IN  [NewsID |-> NewsIdOf(url), Title |-> PageTitle(url),
         Date |-> PageDate(url), Content |-> PageParagraphs(selectors[1], url)]

\* C7: when the extraction loop is over there is a record for every link;
\* the records of the articles whose navigation failed are the
\* navigation-failure placeholders, and every other article whose page
\* behaved well has the record normally extracted for its link.
C7_NavigationFailureIsLocal ==
    (index >= 1 /\ index > Len(news_links)) =>
        /\ Len(news_data) = Len(news_links)
        /\ Len(behaviour) = Len(news_links)
        /\ \A i \in 1..Len(news_data) :
            /\ NavigationFailed(i) =>
                 news_data[i] = NavFailedRecord(i, "NavError")
            /\ (behaviour[i] = EnvOk /\ news_links[i].link # None) =>
                 news_data[i] = NormalRecord(news_links[i].link, i)

\* C7 witness: three links, the navigation of the second raised, the first
\* and the third extracted normally
C7_Witness ==
    /\ pc = "done"
    /\ Len(news_links) = 3
    /\ Len(behaviour) = 3
    /\ \A i \in 1..3 : news_links[i].link # None
    /\ behaviour[1] = EnvOk
    /\ NavigationFailed(2)
    /\ behaviour[3] = EnvOk
    /\ Len(news_data) = 3
    /\ news_data[3] = NormalRecord(news_links[3].link, 3)

\* C8: the link sequence the extraction loop starts from is no longer than
\* max_articles.
C8_LinksWithinCap == index >= 1 => Len(news_links) <= max_articles

\* C8 witness: max_articles = 15, the first page listed PerPage anchors, and
\* 15 links went to the extraction loop
C8_Witness ==
    /\ index >= 1
    /\ max_articles = 15
    /\ current_page = 1
    /\ Len(title_elements) = PerPage
    /\ Len(news_links) = 15

\* C9: in the collection loops, once the links number max_articles no step
\* reads or appends an anchor or goes to another listing page: the next step
\* leaves the loops.
C9_EarlyExit ==
    [][(pc \in {"pages", "anchors", "page_end"} /\ Len(news_links) >= max_articles)
          => /\ news_links' = news_links
             /\ anchor_idx' = anchor_idx
             /\ title_elements' = title_elements
             /\ current_page' = current_page
             /\ page_url' = page_url
             /\ pc' = "truncate"]_vars

\* C9 witness: the cap is reached while anchors of the page are unread and
\* listing pages are unvisited
C9_Witness ==
    /\ pc = "page_end"
    /\ Len(news_links) = max_articles
    /\ anchor_idx < Len(title_elements)
    /\ current_page < total_pages

\* C10: for max_articles < PerPage the listing page count is 1, whatever the
\* reported total (found or not) and whatever max_pages.
C10_SmallRequestsOnePage ==
    (pc = "pages" /\ max_articles < PerPage) => total_pages = 1

\* C10 witness: max_articles = 15 with a reported total of 200 and
\* max_pages = 3
C10_Witness ==
    /\ pc = "pages"
    /\ max_articles = 15
    /\ total_results = 200
    /\ max_pages = {3}
    /\ total_pages = 1

\* n is the least number of pages of PerPage entries that hold k entries
IsCeiling(n, k) ==
    /\ n >= 0
    /\ n * PerPage >= k
    /\ (n - 1) * PerPage < k

\* C11: with max_articles >= 20 and max_pages None, the page count computed
\* from the reported total is ceil(min(total_results, max_articles) / 20),
\* for every total_results >= 0.
C11_PageCountIsCeiling ==
    (pc = "pages" /\ max_articles >= PerPage /\ max_pages = {})
        => IsCeiling(total_pages, Min(total_results, max_articles))

\* C11 witness: 45 results and max_articles = 50 without max_pages give 3
\* pages
C11_Witness ==
    /\ pc = "pages"
    /\ total_results = 45
    /\ max_articles = 50
    /\ max_pages = {}
    /\ total_pages = 3

\* the page count before max_pages is applied (spec: computed_pages)
ComputedPages ==
    IF max_articles < PerPage THEN 1
    ELSE CHOOSE n \in 0..(max_articles + PerPage) :
            IsCeiling(n, Min(total_results, max_articles))

\* the listing page count is computed
PagesKnown == pc \in {"pages", "anchors", "page_end", "truncate", "extract"}

\* C12: when max_pages is given (a positive integer), the page count is
\* min(computed_pages, max_pages), hence at most max_pages and at most
\* computed_pages, and the listing page the page loop is reading is never
\* beyond max_pages.
C12_PagesWithinMaxPages ==
    \A n \in max_pages :
        (n > 0 /\ PagesKnown)
            => /\ total_pages = Min(ComputedPages, n)
               /\ total_pages <= n
               /\ total_pages <= ComputedPages
               /\ (pc \in {"anchors", "page_end"} => current_page <= n)

\* C12 witness: max_pages = 1 cuts two computed pages down to one, and the
\* page loop ends after reading page 1 with fewer links than max_articles
C12_Witness ==
    /\ max_pages = {1}
    /\ ComputedPages = 2
    /\ total_pages = 1
    /\ pc = "truncate"
    /\ current_page = 2
    /\ Len(news_links) < max_articles

\* the run has analysed a result page that reported no result, or no count
\* that could be read
ZeroResults ==
    /\ total_results = 0
    /\ \/ PagesKnown
       \/ /\ pc \in {"except", "finally", "release", "rs_finally", "done"}
          /\ Acquired
          /\ caught \notin {"open", "search", "analyze"}

\* scrape has left, by return or by exception
ScrapeLeft == pc \in {"rs_finally", "done"}

ContentQueried ==
    /\ pc = "extract"
    /\ Len(news_data) = 1
    /\ Len(behaviour) = 1
    /\ news_links[1].link # None
    /\ behaviour[1].nav = "ok"
    /\ ~(progress_callback /\ behaviour[1].sink1 = "raise")
    /\ \A i \in 1..Len(selectors) : behaviour[1].sel[i] # "raise"
    /\ behaviour[1].body # "raise"

\* the content queries among the page operations of the last article: those
\* after goto and the title and date queries
ContentOps == SubSeq(page_ops, 4, Len(page_ops))

\* the queries for the first k selectors, in the order of the list
FirstSelectors(k) == [i \in 1..k |-> <<"query", selectors[i]>>]

\* C14: the selectors are tried in the order of the list up to the first one
\* whose paragraphs hold text, which is the content; when none holds text
\* the content is the text of body; when that is empty or there is no body
\* the content is "Content extraction failed".
C14_ContentChain ==
    ContentQueried =>
        LET e == behaviour[1]
            hits == {i \in 1..Len(selectors) : e.sel[i] = "text"}
            content == news_data[1].Content
        IN  IF hits # {}
            THEN LET k == CHOOSE i \in hits : \A j \in hits : i <= j
                 IN  /\ content = PageParagraphs(selectors[k], page_url)
                     /\ ContentOps = FirstSelectors(k)
            ELSE /\ ContentOps = FirstSelectors(Len(selectors))
                                    \o << <<"query", "body">> >>
                 /\ content = IF e.body = "text" THEN PageBody(page_url)
                              ELSE <<"Content extraction failed">>

\* the Page Session is released, in whole or in part
Released == browser_state = "closed" \/ driver_state = "stopped"

\* C15 as stated: in every run with a progress callback, whether it succeeds
\* or fails, the last call the callback receives is the final "run complete"
\* notification, and it has received it whenever the session is released.
C15_FinalNotificationAlways ==
    progress_callback
        => /\ ScrapeLeft => last_note = "complete"
           /\ Released => last_note = "complete"

\* C15 amended: in every run with a progress callback that acquired the Page
\* Session, whether it succeeds or fails afterwards, the last call the
\* callback receives is the final "run complete" notification, and it has
\* received it whenever the session is released.
C15_FinalNotificationOnceAcquired ==
    (progress_callback /\ Acquired)
        => /\ ScrapeLeft => last_note = "complete"
           /\ Released => last_note = "complete"

\* C15 witness: a run whose search failed ended with the session released
\* and the final notification as the last call to the callback
C15_Witness ==
    /\ pc = "done"
    /\ progress_callback
    /\ caught = "search"
    /\ Released
    /\ last_note = "complete"

\* C16: with the same link and the same page behaviour, the record appended
\* and the page operations made are those of a run without progress
\* callback, whatever the callback does.
C16_SinkIsObservational ==
    (pc = "extract" /\ Len(news_data) = 1 /\ Len(behaviour) = 1)
        => LET quiet == _fetch_article_content(news_links[1].link, 1,
                            Len(news_links), FALSE, page_url, behaviour[1])
           IN  /\ news_data[1] = quiet.rec
               /\ page_ops = quiet.ops

\* C17: when a listing page after the first fails to load (no progress
\* callback attached, so that the failure is the page's), the run still
\* extracts one record for each link collected from the pages before it.
C17_ListingFailureIsLocal ==
    (pc = "done" /\ ~progress_callback /\ caught = "pages" /\ current_page >= 2)
        => Len(news_data) = Len(Clamp(news_links))

\* a URL with scheme and host
IsAbsolute(link) == link # None /\ startswith(link, "http")

\* C18: every link stored in news_links is an absolute URL, whatever the
\* href of its anchor was (with leading slash, without, absolute, missing).
C18_StoredLinksAbsolute ==
    \A i \in 1..Len(news_links) : IsAbsolute(news_links[i].link)

\* the landing page was opened and the login block of lines 191-216 is left
PastLogin == login_link # "unknown" /\ pc \notin {"login", "click", "await_input"}

C20_AbsentLinkSkipsLogin ==
    [][(pc = "login" /\ login_link = "absent")
          => (pc' = "search" /\ ~continued' /\ exc' = "none")]_vars

\* C20 witness: a run with manual_mode on a landing page without login link
\* is about to submit the search, nothing having failed and nothing waited
\* for
C20_Witness ==
    /\ pc = "search"
    /\ login_link = "absent"
    /\ manual_mode
    /\ ~login_error
    /\ ~continued
    /\ exc = "none"

\* the steps of the search submission and of the link collection in which a
\* page operation can fail
SearchAndCollection == {"search", "analyze", "pages", "anchors"}

\* C21: when a step of the search submission or of the link collection
\* raises, scrape returns the empty frame without raising, no record was
\* produced and no article page was visited, whatever links were collected.
C21_CollectionFailureEmptyResult ==
    (ScrapeLeft /\ caught \in SearchAndCollection)
        => /\ exc = "none"
           /\ retval = EmptyFrame
           /\ news_data = <<>>
           /\ page_ops = <<>>

\* the phase a position of the run belongs to: 1 session open, 2 login
\* attempt, 3 search submission, 4 page analysis, 5 link collection,
\* 6 article extraction, 7 result assembly, 8 session close
PhaseOf(p) ==
    CASE p = "setup" -> 1
      [] p \in {"open", "login", "click", "await_input"} -> 2
      [] p = "search" -> 3
      [] p = "analyze" -> 4
      [] p \in {"pages", "anchors", "page_end", "truncate"} -> 5
      [] p = "extract" -> 6
      [] p = "except" -> 7
      [] OTHER -> 8

\* C22: the run moves through its phases in the one order session open,
\* login, search, analysis, collection, extraction, assembly, close and never
\* back; the session is open from the login to the assembly; an article
\* page is visited and a record appended only in the extraction phase; the
\* links are not changed from the extraction phase on.
C22_PhasesInOrder ==
    [][/\ PhaseOf(pc') >= PhaseOf(pc)
       /\ (PhaseOf(pc) \in 2..7)
             => (browser_state = "open" /\ driver_state = "running")
       /\ (news_data' # news_data \/ page_ops' # page_ops) => PhaseOf(pc) = 6
       /\ (PhaseOf(pc) >= 6) => news_links' = news_links]_vars

\* C22 witness: a run went through every phase, the wait for the continue
\* signal included, and returned records
C22_Witness ==
    /\ pc = "done"
    /\ caught = "none"
    /\ continued
    /\ Len(news_data) >= 2
    /\ Released

\* one article was handed to _fetch_article_content with a link that is a
\* string, and the navigation to its page succeeds
ArticleNavigable ==
    /\ pc = "extract"
    /\ Len(news_data) = 1
    /\ Len(behaviour) = 1
    /\ news_links[1].link # None
    /\ behaviour[1].nav = "ok"

\* C23: for an article whose navigation succeeds, whatever step fails (the
\* early progress report, the title, the date, the content), every later
\* step still runs and each field of the record is the value of its own
\* step: the news id derived from the link, the title, date and content
\* found on the page or the sentinel of that field.
C23_StepsFaultIsolated ==
    ArticleNavigable =>
        LET e == behaviour[1]
            url == NormalizeLink(news_links[1].link)
            rec == news_data[1]
        IN  /\ "NewsID" \in DOMAIN rec
            /\ rec.NewsID = NewsIdOf(url)
            /\ rec.Title = ExtractTitle(url, 1, progress_callback, e)
            /\ rec.Date = ExtractDate(url, e)
            /\ rec.Content = ExtractContent(url, e).content
            /\ Len(page_ops) >= 4

\* C24: in one run through run_scraper, browser.close() is called at most
\* once and playwright.stop() is called at most once.
C24_ReleasedAtMostOnce ==
    close_calls <= 1 /\ stop_calls <= 1

====
